---- MODULE Spec2Model ----
(***************************************************************************)
(* Model of the Pokemon greeting generator (src/generate.py).              *)
(*                                                                         *)
(* A Python str is a sequence of text pieces.  Text the code transforms    *)
(* character by character (names, which go through title() and replace())  *)
(* is spelled one character per piece; literal template text is kept as    *)
(* whole pieces.  A JSON value is a record tagged with its type; a Python dict    *)
(* built by the code itself is a function from its keys.  A call's         *)
(* outcome is Ok(value) or Raise(exception class).                         *)
(***************************************************************************)
EXTENDS Integers, Sequences, FiniteSets, TLC

\* ------------------------------------------------------------------------
\* Program constants
\* ------------------------------------------------------------------------

\* MAX_POKEMON_ID, the upper end of random.randint(1, MAX_POKEMON_ID).
MAX_POKEMON_ID == 1025

\* The history cap of main: "if len(history) > 100: history = history[-100:]".
HistoryCap == 100

\* The default max_val of create_stat_bar.
StatMax == 255

\* The number of segments create_stat_bar scales to and subtracts from.
BarWidth == 10

\* ------------------------------------------------------------------------
\* Bounds of the model
\* ------------------------------------------------------------------------

\* Runs of main in one behaviour.
MaxRuns == 3

\* The largest stat value handed to create_stat_bar on its own.
MaxStatValue == 300

\* ------------------------------------------------------------------------
\* Call outcomes and JSON values
\* ------------------------------------------------------------------------

Ok(v) == [status |-> "ok", value |-> v, exc |-> "-"]

Raise(e) == [status |-> "raise", value |-> <<>>, exc |-> e]

JNull == [t |-> "null"]

JStr(s) == [t |-> "str", s |-> s]

JInt(n) == [t |-> "int", n |-> n]

JList(l) == [t |-> "list", l |-> l]

JDict(f) == [t |-> "dict", d |-> f]

EmptyDict == JDict(<<>>)

IsDict(x) == x.t = "dict"

\* dict.get(key, default) on a value known to be a dict.
Get(dict, key, default) == IF key \in DOMAIN dict.d THEN dict.d[key] ELSE default

\* Python truthiness of a JSON value ("if sprite:", "if not pokemon_data:").
Truthy(x) ==
    CASE x.t = "null" -> FALSE
      [] x.t = "int" -> x.n # 0
      [] x.t = "str" -> Len(x.s) > 0
      [] x.t = "list" -> Len(x.l) > 0
      [] x.t = "dict" -> DOMAIN x.d # {}

\* ------------------------------------------------------------------------
\* Strings
\* ------------------------------------------------------------------------

LowerLetters ==
    <<"a", "b", "c", "d", "e", "f", "g", "h", "i", "j", "k", "l", "m",
      "n", "o", "p", "q", "r", "s", "t", "u", "v", "w", "x", "y", "z">>

UpperLetters ==
    <<"A", "B", "C", "D", "E", "F", "G", "H", "I", "J", "K", "L", "M",
      "N", "O", "P", "Q", "R", "S", "T", "U", "V", "W", "X", "Y", "Z">>

Range(s) == {s[i] : i \in DOMAIN s}

IndexOf(s, c) == CHOOSE i \in DOMAIN s : s[i] = c

IsCased(c) == c \in Range(LowerLetters) \cup Range(UpperLetters)

Upper(c) == IF c \in Range(LowerLetters) THEN UpperLetters[IndexOf(LowerLetters, c)] ELSE c

Lower(c) == IF c \in Range(UpperLetters) THEN LowerLetters[IndexOf(UpperLetters, c)] ELSE c

\* str.title(): a cased character is upper-cased when the character before it
\* is not cased (or there is none), lower-cased otherwise.
Title(s) ==
    [i \in DOMAIN s |->
        IF ~IsCased(s[i]) THEN s[i]
        ELSE IF i = 1 \/ ~IsCased(s[i - 1]) THEN Upper(s[i]) ELSE Lower(s[i])]

\* str.replace(old, new) for one-character old and new.
Replace(s, old, new) == [i \in DOMAIN s |-> IF s[i] = old THEN new ELSE s[i]]

RECURSIVE Join(_, _)
\* sep.join(parts)
Join(sep, parts) ==
    IF Len(parts) = 0 THEN <<>>
    ELSE IF Len(parts) = 1 THEN parts[1]
    ELSE parts[1] \o sep \o Join(sep, Tail(parts))

\* s * n: the empty string when n <= 0.
Repeat(s, n) == IF n <= 0 THEN <<>> ELSE [i \in 1..n |-> s]

Digits == <<"0", "1", "2", "3", "4", "5", "6", "7", "8", "9">>

RECURSIVE Str(_)
\* str(n) / f"{n}" for an int
Str(n) ==
    IF n < 0 THEN <<"-">> \o Str(-n)
    ELSE IF n < 10 THEN <<Digits[n + 1]>>
    ELSE Str(n \div 10) \o <<Digits[(n % 10) + 1]>>

\* f"{n:03d}": the sign, then the digits zero-padded to a total width of 3.
Format03d(n) ==
    LET sign == IF n < 0 THEN <<"-">> ELSE <<>>
        digits == Str(IF n < 0 THEN -n ELSE n)
    IN sign \o Repeat("0", 3 - Len(sign) - Len(digits)) \o digits

\* f"{n / 10:.1f}" for an int n: tenths, one fractional digit.
FormatTenths(n) ==
    LET a == IF n < 0 THEN -n ELSE n
    IN (IF n < 0 THEN <<"-">> ELSE <<>>) \o Str(a \div 10) \o <<".">> \o <<Digits[(a % 10) + 1]>>

\* int(x / y * 10 ...) truncates toward zero; a and b are the exact numerator
\* and the positive denominator.  The double rounding of (value / 255) * 10
\* never crosses an integer for the values modelled.
IntTrunc(a, b) == IF a >= 0 THEN a \div b ELSE -((-a) \div b)

Contains(s, sub) ==
    \E i \in 0..(Len(s) - Len(sub)) : \A j \in 1..Len(sub) : s[i + j] = sub[j]

Count(s, c) == Cardinality({i \in DOMAIN s : s[i] = c})

\* ------------------------------------------------------------------------
\* get_pokemon_sprite
\* ------------------------------------------------------------------------

FallbackSprite == <<"https://raw.githubusercontent.com/PokeAPI/sprites/master/sprites/pokemon/0.png">>

\* "for sprite in sprite_options: if sprite: return sprite", then the fallback.
FirstTruthy(sprite_options) ==
    IF \E i \in DOMAIN sprite_options : Truthy(sprite_options[i])
    THEN LET i == CHOOSE k \in DOMAIN sprite_options :
                      /\ Truthy(sprite_options[k])
                      /\ \A j \in 1..(k - 1) : ~Truthy(sprite_options[j])
         IN sprite_options[i].s
    ELSE FallbackSprite

\* The list sprite_options is built in full before the loop reads it, so each
\* chained .get() is evaluated: .get on a value that is not a dict (a null
\* record, 'sprites', 'other', 'official-artwork' or 'home') raises
\* AttributeError.
get_pokemon_sprite(pokemon_data) ==
    IF ~IsDict(pokemon_data) THEN Raise("AttributeError")
    ELSE
    LET sprites == Get(pokemon_data, "sprites", EmptyDict)
    IN IF ~IsDict(sprites) THEN Raise("AttributeError")
       ELSE LET other == Get(sprites, "other", EmptyDict)
            IN IF ~IsDict(other) THEN Raise("AttributeError")
               ELSE LET artwork == Get(other, "official-artwork", EmptyDict)
                        home == Get(other, "home", EmptyDict)
                    IN IF ~IsDict(artwork) \/ ~IsDict(home) THEN Raise("AttributeError")
                       ELSE Ok(FirstTruthy(<<Get(sprites, "front_default", JNull),
                                             Get(sprites, "front_shiny", JNull),
                                             Get(artwork, "front_default", JNull),
                                             Get(home, "front_default", JNull)>>))

\* ------------------------------------------------------------------------
\* get_pokemon_info
\* ------------------------------------------------------------------------

\* The dict the loop over pokemon_data['stats'] builds: a later entry of the
\* same normalised name overwrites an earlier one.
StatsDict(stat_list) ==
    LET stat_name(i) == Title(Replace(stat_list[i].d["stat"].d["name"].s, "-", " "))
        last(n) == CHOOSE i \in DOMAIN stat_list :
                       /\ stat_name(i) = n
                       /\ \A j \in (i + 1)..Len(stat_list) : stat_name(j) # n
    IN [n \in {stat_name(i) : i \in DOMAIN stat_list} |-> stat_list[last(n)].d["base_stat"].n]

RECURSIVE SumOver(_, _)
SumOver(f, keys) ==
    IF keys = {} THEN 0
    ELSE LET k == CHOOSE x \in keys : TRUE IN f[k] + SumOver(f, keys \ {k})

\* stats.get(key, 0)
StatGet(stats, key) == IF key \in DOMAIN stats THEN stats[key] ELSE 0

\* pokemon_data['name'] and pokemon_data['id'] are subscripts, not .get():
\* a record without either raises KeyError.  The elements of types, abilities
\* and stats are read as the API shapes them.
get_pokemon_info(pokemon_data) ==
    IF ~IsDict(pokemon_data) THEN Raise("AttributeError")
    ELSE
    LET type_list == Get(pokemon_data, "types", JList(<<>>)).l
        ability_list == Get(pokemon_data, "abilities", JList(<<>>)).l
        types == [i \in DOMAIN type_list |-> Title(type_list[i].d["type"].d["name"].s)]
        abilities == [i \in DOMAIN ability_list |->
                         Replace(Title(ability_list[i].d["ability"].d["name"].s), "-", " ")]
        stats == StatsDict(Get(pokemon_data, "stats", JList(<<>>)).l)
    IN IF "name" \notin DOMAIN pokemon_data.d \/ "id" \notin DOMAIN pokemon_data.d
       THEN Raise("KeyError")
       ELSE Ok([name |-> Title(pokemon_data.d["name"].s),
                id |-> pokemon_data.d["id"].n,
                types |-> Join(<<" / ">>, types),
                height |-> FormatTenths(Get(pokemon_data, "height", JInt(0)).n) \o <<" m">>,
                weight |-> FormatTenths(Get(pokemon_data, "weight", JInt(0)).n) \o <<" kg">>,
                abilities |-> Join(<<", ">>, SubSeq(abilities, 1, IF Len(abilities) < 2 THEN Len(abilities) ELSE 2)),
                hp |-> StatGet(stats, <<"H", "p">>),
                attack |-> StatGet(stats, <<"A", "t", "t", "a", "c", "k">>),
                defense |-> StatGet(stats, <<"D", "e", "f", "e", "n", "s", "e">>),
                speed |-> StatGet(stats, <<"S", "p", "e", "e", "d">>),
                total_stats |-> SumOver(stats, DOMAIN stats)])

\* ------------------------------------------------------------------------
\* generate_readme_content
\* ------------------------------------------------------------------------

\* Each template is the text before and after its {name} field.
GREETING_TEMPLATES ==
    << [pre |-> "You have been greeted by **", post |-> "**"],
       [pre |-> "A wild **", post |-> "** appeared to greet you!"],
       [pre |-> "**", post |-> "** wants to brighten your day!"],
       [pre |-> "Say hello to **", post |-> "**!"],
       [pre |-> "**", post |-> "** is here to wish you well!"],
       [pre |-> "Greetings from **", post |-> "**!"],
       [pre |-> "**", post |-> "** sends you positive vibes!"] >>

CLOSING_MESSAGES ==
    << "Have a wonderful day!",
       "May your day be filled with joy!",
       "Wishing you happiness and success!",
       "Hope you have an amazing day ahead!",
       "Sending you good vibes!",
       "Have a fantastic day!",
       "May your journey be legendary!" >>

\* template.format(name=...)
FormatGreeting(template, name) == <<template.pre>> \o name \o <<template.post>>

\* The two block pieces of the bar (multi-byte literals in the source).
SolidBlock == "<solid block>"

EmptyBlock == "<empty block>"

\* filled = int((value / max_val) * 10)
StatBarFilled(value) == IntTrunc(value * BarWidth, StatMax)

create_stat_bar(value) ==
    LET filled == StatBarFilled(value)
        bar == Repeat(SolidBlock, filled) \o Repeat(EmptyBlock, BarWidth - filled)
    IN bar \o <<" ">> \o Str(value)

\* The keys of pokemon_info the function subscripts, in the order it reads them.
CardKeys ==
    <<"name", "id", "types", "height", "weight", "abilities", "total_stats",
      "hp", "attack", "defense", "speed">>

\* greeting and closing are the indices random.choice draws; now is the clock
\* reading datetime.now() formats.  The pictographs of the template are left
\* out of its pieces, and a code fence is written as the piece "<code fence>".
generate_readme_content(sprite_url, pokemon_info, greeting, closing, now) ==
    IF \E i \in DOMAIN CardKeys : CardKeys[i] \notin DOMAIN pokemon_info
    THEN Raise("KeyError")
    ELSE Ok(<<"<div align=\"center\">", "<img src=\"">> \o sprite_url
            \o <<"\" width=\"250\" height=\"250\" alt=\"">> \o pokemon_info.name \o <<"\">">>
            \o <<"# ">> \o FormatGreeting(GREETING_TEMPLATES[greeting], pokemon_info.name)
            \o <<"<table>", "<tr>", "<td align=\"center\"><strong>", "#">>
            \o Format03d(pokemon_info.id) \o <<"</strong></td>">>
            \o <<"<td align=\"center\"><strong>">> \o pokemon_info.types \o <<"</strong></td>">>
            \o <<"<td align=\"center\"><strong>">> \o pokemon_info.height \o <<"</strong></td>">>
            \o <<"<td align=\"center\"><strong>">> \o pokemon_info.weight \o <<"</strong></td>">>
            \o <<"</tr>", "<tr>", "<td align=\"center\">Number</td>",
                 "<td align=\"center\">Type</td>", "<td align=\"center\">Height</td>",
                 "<td align=\"center\">Weight</td>", "</tr>", "</table>">>
            \o <<"### Abilities", "**">> \o pokemon_info.abilities \o <<"**">>
            \o <<"### Base Stats (Total: ">> \o Str(pokemon_info.total_stats) \o <<")", "<code fence>">>
            \o <<"HP      ">> \o create_stat_bar(pokemon_info.hp)
            \o <<"Attack  ">> \o create_stat_bar(pokemon_info.attack)
            \o <<"Defense ">> \o create_stat_bar(pokemon_info.defense)
            \o <<"Speed   ">> \o create_stat_bar(pokemon_info.speed)
            \o <<"<code fence>", "## ", CLOSING_MESSAGES[closing], "*Last updated: ">> \o Str(now)
            \o <<"*", "---", "This README is automatically updated every 24 hours",
                 "Powered by PokeAPI", "</div>">>)

\* ------------------------------------------------------------------------
\* Exceptions
\* ------------------------------------------------------------------------

\* Each exception class the model raises, with the classes it derives from
\* (itself included).  requests.exceptions.JSONDecodeError derives from both
\* RequestException and json.JSONDecodeError.
Ancestors(e) ==
    CASE e = "Exception" -> {"Exception"}
      [] e = "OSError" -> {"OSError", "Exception"}
      [] e = "FileNotFoundError" -> {"FileNotFoundError", "OSError", "Exception"}
      [] e = "PermissionError" -> {"PermissionError", "OSError", "Exception"}
      [] e = "json.JSONDecodeError" -> {"json.JSONDecodeError", "ValueError", "Exception"}
      [] e = "requests.ConnectionError" ->
             {"requests.ConnectionError", "requests.RequestException", "OSError", "Exception"}
      [] e = "requests.Timeout" ->
             {"requests.Timeout", "requests.RequestException", "OSError", "Exception"}
      [] e = "requests.HTTPError" ->
             {"requests.HTTPError", "requests.RequestException", "OSError", "Exception"}
      [] e = "requests.JSONDecodeError" ->
             {"requests.JSONDecodeError", "requests.RequestException", "json.JSONDecodeError",
              "ValueError", "OSError", "Exception"}
      [] e = "AttributeError" -> {"AttributeError", "Exception"}
      [] e = "KeyError" -> {"KeyError", "LookupError", "Exception"}

\* An "except (A, B)" clause catches e when e derives from one of its classes.
Catches(clause, e) == Ancestors(e) \cap clause # {}

\* ------------------------------------------------------------------------
\* Sample payloads
\* ------------------------------------------------------------------------

TypeEntry(n) == JDict([type |-> JDict([name |-> JStr(n)])])

AbilityEntry(n) == JDict([ability |-> JDict([name |-> JStr(n)])])

StatEntry(n, b) == JDict([stat |-> JDict([name |-> JStr(n)]), base_stat |-> JInt(b)])

SixStats(hp, attack, defense, spatk, spdef, speed) ==
    JList(<< StatEntry(<<"h", "p">>, hp),
             StatEntry(<<"a", "t", "t", "a", "c", "k">>, attack),
             StatEntry(<<"d", "e", "f", "e", "n", "s", "e">>, defense),
             StatEntry(<<"s", "p", "e", "c", "i", "a", "l", "-", "a", "t", "t", "a", "c", "k">>, spatk),
             StatEntry(<<"s", "p", "e", "c", "i", "a", "l", "-", "d", "e", "f", "e", "n", "s", "e">>, spdef),
             StatEntry(<<"s", "p", "e", "e", "d">>, speed) >>)

\* The fixture of the tests (setUp), with the abilities and stats the API adds.
PikachuFields ==
    [id |-> JInt(25),
     name |-> JStr(<<"p", "i", "k", "a", "c", "h", "u">>),
     height |-> JInt(4),
     weight |-> JInt(60),
     types |-> JList(<<TypeEntry(<<"e", "l", "e", "c", "t", "r", "i", "c">>)>>),
     abilities |-> JList(<<AbilityEntry(<<"s", "t", "a", "t", "i", "c">>),
                          AbilityEntry(<<"l", "i", "g", "h", "t", "n", "i", "n", "g", "-", "r", "o", "d">>)>>),
     stats |-> SixStats(35, 55, 40, 50, 50, 90),
     sprites |-> JDict([front_default |-> JStr(<<"https://example.com/pikachu.png">>),
                        front_shiny |-> JStr(<<"https://example.com/pikachu_shiny.png">>)])]

BulbasaurFields ==
    [id |-> JInt(1),
     name |-> JStr(<<"b", "u", "l", "b", "a", "s", "a", "u", "r">>),
     height |-> JInt(7),
     weight |-> JInt(69),
     types |-> JList(<<TypeEntry(<<"g", "r", "a", "s", "s">>), TypeEntry(<<"p", "o", "i", "s", "o", "n">>)>>),
     abilities |-> JList(<<AbilityEntry(<<"o", "v", "e", "r", "g", "r", "o", "w">>),
                          AbilityEntry(<<"c", "h", "l", "o", "r", "o", "p", "h", "y", "l", "l">>)>>),
     stats |-> SixStats(45, 49, 49, 65, 65, 45),
     sprites |-> JDict([front_default |-> JStr(<<"https://example.com/1.png">>)])]

PecharuntFields ==
    [id |-> JInt(MAX_POKEMON_ID),
     name |-> JStr(<<"p", "e", "c", "h", "a", "r", "u", "n", "t">>),
     height |-> JInt(3),
     weight |-> JInt(3),
     types |-> JList(<<TypeEntry(<<"p", "o", "i", "s", "o", "n">>), TypeEntry(<<"g", "h", "o", "s", "t">>)>>),
     abilities |-> JList(<<AbilityEntry(<<"p", "o", "i", "s", "o", "n", "-", "p", "u", "p", "p", "e", "t", "e", "e", "r">>)>>),
     stats |-> SixStats(88, 88, 160, 88, 88, 88),
     sprites |-> JDict([front_default |-> JNull,
                        other |-> JDict("official-artwork" :>
                                        JDict([front_default |-> JStr(<<"https://example.com/1025-art.png">>)]))])]

\* The ids random.randint(1, MAX_POKEMON_ID) is sampled at: both ends.
SampleIds == {1, MAX_POKEMON_ID}

\* The document the API serves for an id.
ApiFields(id) == IF id = 1 THEN BulbasaurFields ELSE PecharuntFields

Restrict(f, keys) == [k \in keys |-> f[k]]

\* ------------------------------------------------------------------------
\* Files: load_history, save_history, update_readme
\* ------------------------------------------------------------------------

\* The history file is missing, unreadable (open or decoding raises an OSError,
\* here PermissionError), not valid JSON, or holds a JSON value.  The README
\* holds a text, or what is left of one when a write stopped half-way.
HistoryFile(kind, value) == [kind |-> kind, value |-> value]

TextFile(kind, text) == [kind |-> kind, text |-> text]

\* How an open(...,'w') and the write inside it can end.
IoOutcomes == {"ok", "open_fails", "write_fails"}

\* open(HISTORY_FILE, 'r') and json.load(f)
ReadHistoryFile(file) ==
    CASE file.kind = "missing" -> Raise("FileNotFoundError")
      [] file.kind = "unreadable" -> Raise("PermissionError")
      [] file.kind = "invalid" -> Raise("json.JSONDecodeError")
      [] file.kind = "json" -> Ok(file.value)

load_history(file) ==
    LET r == ReadHistoryFile(file)
    IN IF r.status = "raise" /\ Catches({"FileNotFoundError", "json.JSONDecodeError"}, r.exc)
       THEN Ok(JList(<<>>))
       ELSE r

\* open(path, 'w') truncates the file once it succeeds; a failure of the write
\* (or of the flush when the file is closed) leaves it cut short.
WriteFile(file, written, cut, io) ==
    CASE io = "ok" -> [file |-> written, result |-> Ok(TRUE)]
      [] io = "open_fails" -> [file |-> file, result |-> Raise("PermissionError")]
      [] io = "write_fails" -> [file |-> cut, result |-> Raise("OSError")]

\* save_history with "except FileNotFoundError" in place of "except Exception".
SaveHistoryExcept_Narrow == {"FileNotFoundError"}

\* The except clause of save_history.
SaveHistoryExcept == {"Exception"}

save_history(history, file, io) ==
    LET w == WriteFile(file, HistoryFile("json", history), HistoryFile("invalid", JNull), io)
    IN IF w.result.status = "raise" /\ Catches(SaveHistoryExcept, w.result.exc)
       THEN [file |-> w.file, result |-> Ok(FALSE)]
       ELSE w

\* update_readme returning True from its except branch as well.
update_readme_AlwaysTrue(file, content, io) ==
    LET w == WriteFile(file, TextFile("text", content), TextFile("partial", <<>>), io)
    IN [file |-> w.file, result |-> Ok(TRUE)]

update_readme(file, content, io) ==
    LET w == WriteFile(file, TextFile("text", content), TextFile("partial", <<>>), io)
    IN IF w.result.status = "raise" /\ Catches({"Exception"}, w.result.exc)
       THEN [file |-> w.file, result |-> Ok(FALSE)]
       ELSE w

\* ------------------------------------------------------------------------
\* fetch_pokemon_data
\* ------------------------------------------------------------------------

Net(get_raises, status, json_raises, body) ==
    [get_raises |-> get_raises, status |-> status, json_raises |-> json_raises, body |-> body]

\* What the network can do with GET {base_url}/{id}: requests.get raises; or it
\* answers with a status and a body that is JSON or not.  A body that is not
\* JSON makes response.json() raise requests' JSONDecodeError, or json's own in
\* older releases of requests.  The API's document may lack a field.
NetBehaviours(id) ==
    {Net(e, 0, "-", JNull) : e \in {"requests.ConnectionError", "requests.Timeout", "Exception"}}
    \cup {Net("-", s, "-", JNull) : s \in {404, 500}}
    \cup {Net("-", 200, e, JNull) : e \in {"requests.JSONDecodeError", "json.JSONDecodeError"}}
    \cup {Net("-", 200, "-", JDict(f)) :
            f \in {ApiFields(id), Restrict(ApiFields(id), DOMAIN ApiFields(id) \ {"name"}), <<>>}}

\* fetch_pokemon_data without its "except RequestException" clause.
FetchExcept_OnlyJson == {"json.JSONDecodeError"}

\* The except clauses of fetch_pokemon_data.
FetchExcept == {"requests.RequestException", "json.JSONDecodeError"}

\* The body of the try: requests.get, raise_for_status, response.json().
FetchTry(net) ==
    IF net.get_raises # "-" THEN Raise(net.get_raises)
    ELSE IF net.status >= 400 THEN Raise("requests.HTTPError")
    ELSE IF net.json_raises # "-" THEN Raise(net.json_raises)
    ELSE Ok(net.body)

\* None is JNull.
fetch_pokemon_data(net) ==
    LET r == FetchTry(net)
    IN IF r.status = "raise" /\ Catches(FetchExcept, r.exc) THEN Ok(JNull) ELSE r

\* ------------------------------------------------------------------------
\* main: one run is the steps below; pc is the step the run is at
\* ------------------------------------------------------------------------

VARIABLES
    pc,               \* "idle" between runs, else the next step of main
    outcome,          \* how the last run ended: [how, at, exc]
    runs,             \* runs started
    clock,            \* datetime.now(), one tick per run
    readme_file,      \* README.md
    history_file,     \* pokemon_history.json
    readme_at_start,  \* README.md as the current run found it
    history_at_start, \* pokemon_history.json as the current run found it
    io_log,           \* what the current run did to the files, in order
    history,          \* main's locals
    pokemon_id,
    response,
    pokemon_data,
    sprite_url,
    pokemon_info,
    readme_content,
    history_entry,
    call              \* the last direct call of a function: [fn, args, ret]

files == <<readme_file, history_file>>

locals == <<history, pokemon_id, response, pokemon_data, sprite_url, pokemon_info,
            readme_content, history_entry>>

mainvars == <<pc, outcome, runs, clock, readme_file, history_file, readme_at_start,
              history_at_start, io_log, history, pokemon_id, response, pokemon_data,
              sprite_url, pokemon_info, readme_content, history_entry>>

vars == <<mainvars, call>>

Outcome(how, at, exc) == [how |-> how, at |-> at, exc |-> exc]

NoNet == Net("-", 0, "-", JNull)

NoEntry == [timestamp |-> 0, pokemon_id |-> 0, pokemon_name |-> <<>>, types |-> <<>>]

NoCall == [fn |-> "none", args |-> <<>>, ret |-> Ok(<<>>)]

\* An entry an earlier run left in the history at clock reading t.
PastEntry(t) ==
    [timestamp |-> t, pokemon_id |-> 25,
     pokemon_name |-> <<"P", "i", "k", "a", "c", "h", "u">>,
     types |-> <<"E", "l", "e", "c", "t", "r", "i", "c">>]

\* The history file before the first run: absent, unreadable, not JSON, JSON
\* that is no array ({} and null), or an array of 0, 1, HistoryCap - 1 or
\* HistoryCap entries.
InitialHistoryFiles ==
    {HistoryFile(k, JNull) : k \in {"missing", "unreadable", "invalid"}}
    \cup {HistoryFile("json", EmptyDict), HistoryFile("json", JNull)}
    \cup {HistoryFile("json", JList([i \in 1..n |-> PastEntry(i)])) :
            n \in {0, 1, HistoryCap - 1, HistoryCap}}

InitMain(h) ==
    /\ pc = "idle"
    /\ outcome = Outcome("none", "-", "-")
    /\ runs = 0
    /\ clock = HistoryCap
    /\ readme_file = TextFile("text", <<"# pokemon-greeting">>)
    /\ history_file = h
    /\ readme_at_start = readme_file
    /\ history_at_start = history_file
    /\ io_log = <<>>
    /\ history = JNull
    /\ pokemon_id = 0
    /\ response = NoNet
    /\ pokemon_data = JNull
    /\ sprite_url = <<>>
    /\ pokemon_info = <<>>
    /\ readme_content = <<>>
    /\ history_entry = NoEntry

Init == (\E h \in InitialHistoryFiles : InitMain(h)) /\ call = NoCall

\* The run ends: main returns ("aborted", "readme_failed", "success").
EndRun(how) == pc' = "idle" /\ outcome' = Outcome(how, "-", "-")

\* The run ends with exception exc leaving main from the call named at.
Crash(at, exc) == pc' = "idle" /\ outcome' = Outcome("crashed", at, exc)

\* Lines 236-239: a run starts and loads the history.
LoadHistory ==
    /\ pc = "idle"
    /\ runs < MaxRuns
    /\ runs' = runs + 1
    /\ clock' = clock + 1
    /\ readme_at_start' = readme_file
    /\ history_at_start' = history_file
    /\ io_log' = <<"history:read">>
    /\ pokemon_id' = 0
    /\ response' = NoNet
    /\ pokemon_data' = JNull
    /\ sprite_url' = <<>>
    /\ pokemon_info' = <<>>
    /\ readme_content' = <<>>
    /\ history_entry' = NoEntry
    /\ LET r == load_history(history_file)
       IN IF r.status = "raise"
          THEN history' = JNull /\ Crash("load_history", r.exc)
          ELSE history' = r.value /\ pc' = "fetch" /\ outcome' = Outcome("running", "-", "-")
    /\ UNCHANGED <<files, call>>

\* "if not pokemon_data: ... return"
ShouldAbort(data) == ~Truthy(data)

\* Lines 241-249: draw the id, fetch, give up when nothing came back.
FetchPokemonData ==
    /\ pc = "fetch"
    /\ \E id \in SampleIds : \E net \in NetBehaviours(id) :
          LET r == fetch_pokemon_data(net)
          IN /\ pokemon_id' = id
             /\ response' = net
             /\ IF r.status = "raise"
                THEN pokemon_data' = JNull /\ Crash("fetch_pokemon_data", r.exc)
                ELSE /\ pokemon_data' = r.value
                     /\ IF ShouldAbort(r.value)
                        THEN EndRun("aborted")
                        ELSE pc' = "extract" /\ outcome' = outcome
    /\ UNCHANGED <<runs, clock, files, readme_at_start, history_at_start, io_log, history,
                   sprite_url, pokemon_info, readme_content, history_entry, call>>

\* Lines 251-253: the sprite and the display info.
GetSpriteAndInfo ==
    /\ pc = "extract"
    /\ LET s == get_pokemon_sprite(pokemon_data)
           i == get_pokemon_info(pokemon_data)
       IN IF s.status = "raise"
          THEN Crash("get_pokemon_sprite", s.exc) /\ UNCHANGED <<sprite_url, pokemon_info>>
          ELSE IF i.status = "raise"
          THEN Crash("get_pokemon_info", i.exc) /\ UNCHANGED <<sprite_url, pokemon_info>>
          ELSE sprite_url' = s.value /\ pokemon_info' = i.value /\ pc' = "generate"
               /\ outcome' = outcome
    /\ UNCHANGED <<runs, clock, files, readme_at_start, history_at_start, io_log, history,
                   pokemon_id, response, pokemon_data, readme_content, history_entry, call>>

\* The draws of random.choice a run of main is sampled at: the first and the
\* last element of each list.
SampleGreetings == {1, Len(GREETING_TEMPLATES)}

SampleClosings == {1, Len(CLOSING_MESSAGES)}

\* Lines 255-256: the card, with the greeting and the closing drawn at random.
GenerateReadme ==
    /\ pc = "generate"
    /\ \E g \in SampleGreetings : \E c \in SampleClosings :
          LET r == generate_readme_content(sprite_url, pokemon_info, g, c, clock)
          IN IF r.status = "raise"
             THEN Crash("generate_readme_content", r.exc) /\ UNCHANGED readme_content
             ELSE readme_content' = r.value /\ pc' = "update" /\ outcome' = outcome
    /\ UNCHANGED <<runs, clock, files, readme_at_start, history_at_start, io_log, history,
                   pokemon_id, response, pokemon_data, sprite_url, pokemon_info,
                   history_entry, call>>

\* Lines 258-259 and 275-276: write the README; the run goes on to the history
\* only when update_readme returned True.
UpdateReadme ==
    /\ pc = "update"
    /\ \E io \in IoOutcomes :
          LET w == update_readme(readme_file, readme_content, io)
          IN /\ readme_file' = w.file
             /\ io_log' = Append(io_log, IF io = "ok" THEN "readme:write:ok"
                                         ELSE "readme:write:failed")
             /\ IF w.result.status = "raise" THEN Crash("update_readme", w.result.exc)
                ELSE IF w.result.value THEN pc' = "save" /\ outcome' = outcome
                ELSE EndRun("readme_failed")
    /\ UNCHANGED <<runs, clock, history_file, readme_at_start, history_at_start, locals, call>>

\* The slice history[:100] in place of history[-100:].
KeepLast_First(entries) ==
    IF Len(entries) > HistoryCap THEN SubSeq(entries, 1, HistoryCap) ELSE entries

\* "if len(history) > 100: history = history[-100:]"
KeepLast(entries) ==
    IF Len(entries) > HistoryCap
    THEN SubSeq(entries, Len(entries) - HistoryCap + 1, Len(entries))
    ELSE entries

\* Lines 260-274: append the entry, keep the last 100, save.  history.append
\* raises AttributeError when the loaded JSON value is no list.
UpdateHistory ==
    /\ pc = "save"
    /\ history_entry' = [timestamp |-> clock, pokemon_id |-> pokemon_id,
                         pokemon_name |-> pokemon_info.name, types |-> pokemon_info.types]
    /\ IF history.t # "list"
       THEN Crash("history.append", "AttributeError")
            /\ UNCHANGED <<history, history_file, io_log>>
       ELSE \E io \in IoOutcomes :
              LET kept == JList(KeepLast(Append(history.l, history_entry')))
                  w == save_history(kept, history_file, io)
              IN /\ history' = kept
                 /\ history_file' = w.file
                 /\ io_log' = Append(io_log, IF io = "ok" THEN "history:write:ok"
                                             ELSE "history:write:failed")
                 /\ IF w.result.status = "raise" THEN Crash("save_history", w.result.exc)
                    ELSE EndRun("success")
    /\ UNCHANGED <<runs, clock, readme_file, readme_at_start, history_at_start, pokemon_id,
                   response, pokemon_data, sprite_url, pokemon_info, readme_content, call>>

Next ==
    \/ LoadHistory
    \/ FetchPokemonData
    \/ GetSpriteAndInfo
    \/ GenerateReadme
    \/ UpdateReadme
    \/ UpdateHistory

Spec == Init /\ [][Next]_vars

\* ------------------------------------------------------------------------
\* The functions called on their own, as the tests call them
\* ------------------------------------------------------------------------

\* A key left out of a dict under construction.
Absent == [t |-> "absent"]

MkDict(f) == JDict(Restrict(f, {k \in DOMAIN f : f[k].t # "absent"}))

\* A URL field: absent, null or set.
LeafChoices(url) == {Absent, JNull, JStr(<<url>>)}

\* A nested mapping: absent, null or one of dicts.
ContainerChoices(dicts) == {Absent, JNull} \cup dicts

ArtworkChoices ==
    ContainerChoices({MkDict([front_default |-> x]) : x \in LeafChoices("artwork.png")})

HomeChoices ==
    ContainerChoices({MkDict([front_default |-> x]) : x \in LeafChoices("home.png")})

OtherChoices ==
    ContainerChoices({MkDict(("official-artwork" :> a) @@ ("home" :> h)) :
                        a \in ArtworkChoices, h \in HomeChoices})

SpritesChoices ==
    ContainerChoices({MkDict([front_default |-> a, front_shiny |-> b, other |-> o]) :
                        a \in LeafChoices("default.png"), b \in LeafChoices("shiny.png"),
                        o \in OtherChoices})

\* Every record get_pokemon_sprite is called on: each key absent, null or set.
SpriteRecords == {MkDict([sprites |-> s]) : s \in SpritesChoices}

InfoFields == {"id", "name", "height", "weight", "types", "abilities", "stats"}

\* Every record get_pokemon_info is called on: the fixture with any subset of
\* its fields left out.
InfoRecords == {JDict(Restrict(PikachuFields, present)) : present \in SUBSET InfoFields}

\* The keys of the pokemon_info test_generate_readme_content passes.
TestInfoKeys == {"name", "id", "types", "height", "weight"}

SampleInfos ==
    {get_pokemon_info(JDict(f)).value : f \in {PikachuFields, BulbasaurFields, PecharuntFields}}

\* The infos generate_readme_content is called on: the eleven keys
\* get_pokemon_info returns, and the five keys the test passes.
CardInfos == SampleInfos \cup {Restrict(i, TestInfoKeys) : i \in SampleInfos}

CardSprites == {<<"https://example.com/pikachu.png">>, FallbackSprite}

StatValues == 0..MaxStatValue

Called(fn, args, ret) == [fn |-> fn, args |-> args, ret |-> ret]

\* A call is made when no call is in progress, and Return ends it.
CallGetPokemonSprite ==
    /\ call.fn = "none"
    /\ \E rec \in SpriteRecords :
          call' = Called("get_pokemon_sprite", <<rec>>, get_pokemon_sprite(rec))
    /\ UNCHANGED mainvars

CallGetPokemonInfo ==
    /\ call.fn = "none"
    /\ \E rec \in InfoRecords :
          call' = Called("get_pokemon_info", <<rec>>, get_pokemon_info(rec))
    /\ UNCHANGED mainvars

CallGenerateReadmeContent ==
    /\ call.fn = "none"
    /\ \E info \in CardInfos : \E sprite \in CardSprites :
        \E g \in DOMAIN GREETING_TEMPLATES : \E c \in DOMAIN CLOSING_MESSAGES :
          call' = Called("generate_readme_content", <<sprite, info, g, c>>,
                         generate_readme_content(sprite, info, g, c, clock))
    /\ UNCHANGED mainvars

CallCreateStatBar ==
    /\ call.fn = "none"
    /\ \E value \in StatValues :
          call' = Called("create_stat_bar", <<value>>, Ok(create_stat_bar(value)))
    /\ UNCHANGED mainvars

Return == call.fn # "none" /\ call' = NoCall /\ UNCHANGED mainvars

InitFn == InitMain(HistoryFile("missing", JNull)) /\ call = NoCall

NextFn ==
    \/ CallGetPokemonSprite
    \/ CallGetPokemonInfo
    \/ CallGenerateReadmeContent
    \/ CallCreateStatBar
    \/ Return

SpecFn == InitFn /\ [][NextFn]_vars

\* ------------------------------------------------------------------------
\* Properties of a run of main
\* ------------------------------------------------------------------------

IsArray(file) == file.kind = "json" /\ file.value.t = "list"

\* The entries a run finds: those of the array in the file, none when the file
\* is missing or is not JSON.
EntriesOf(file) == IF IsArray(file) THEN file.value.l ELSE <<>>

LastLogged == IF Len(io_log) = 0 THEN "-" ELSE io_log[Len(io_log)]

HistoryWrites == {"history:write:ok", "history:write:failed"}

\* C1: the stored history never has more than 100 entries, and a run that
\* writes the README and saves the history stores exactly the last 100 entries
\* of (the history it found, followed by its new entry), in their order, the
\* new entry last.
C1_HistoryCapped ==
    /\ IsArray(history_file) => Len(history_file.value.l) <= HistoryCap
    /\ (outcome.how = "success" /\ LastLogged = "history:write:ok") =>
          LET all == Append(EntriesOf(history_at_start), history_entry)
              n == IF Len(all) > HistoryCap THEN HistoryCap ELSE Len(all)
          IN /\ IsArray(history_file)
             /\ Len(history_file.value.l) = n
             /\ \A i \in 1..n : history_file.value.l[i] = all[Len(all) - n + i]
             /\ history_file.value.l[n] = history_entry
             /\ history_entry.timestamp = clock

\* A run found a full history of 100 entries and saved: the oldest entry is
\* gone and the new one is last.
C1_Witness ==
    /\ outcome.how = "success"
    /\ LastLogged = "history:write:ok"
    /\ Len(EntriesOf(history_at_start)) = HistoryCap
    /\ Len(EntriesOf(history_file)) = HistoryCap
    /\ EntriesOf(history_file)[1] = EntriesOf(history_at_start)[2]
    /\ EntriesOf(history_file)[HistoryCap] = history_entry

\* The fetch of the current run failed: the GET raised a network error, the
\* status was an error status (4xx or 5xx, those raise_for_status raises
\* for), or the body was not JSON.
FetchFailed ==
    \/ response.get_raises \in {"requests.ConnectionError", "requests.Timeout"}
    \/ response.status >= 400
    \/ response.json_raises # "-"

C3_HistoryAfterReadme ==
    /\ \A i \in DOMAIN io_log :
          io_log[i] \in HistoryWrites => \E j \in 1..(i - 1) : io_log[j] = "readme:write:ok"
    /\ history_file # history_at_start => \E j \in DOMAIN io_log : io_log[j] = "readme:write:ok"
    /\ outcome.how = "readme_failed" =>
          /\ history_file = history_at_start
          /\ \A i \in DOMAIN io_log : io_log[i] \notin HistoryWrites

\* A run whose README write failed half-way: the README is cut short and the
\* history, which holds entries, was not touched.
C3_Witness ==
    /\ outcome.how = "readme_failed"
    /\ LastLogged = "readme:write:failed"
    /\ readme_file.kind = "partial"
    /\ Len(EntriesOf(history_file)) > 0
    /\ history_file = history_at_start

\* C4: fetch_pokemon_data returns None and lets nothing propagate whenever the
\* GET raises, whatever the class of the exception.
C4_FetchNeverPropagates ==
    response.get_raises # "-" =>
        /\ outcome.how # "crashed"
        /\ pokemon_data = JNull

\* C5: whatever the history file holds that is not an array of entries
\* (missing, unreadable, not JSON, JSON that is no array), load_history does
\* not raise, the run starts from an empty history, and the append and the
\* save do not raise.
C5_UnusableHistoryTolerated ==
    (runs > 0 /\ ~IsArray(history_at_start)) =>
        /\ outcome.at \notin {"load_history", "history.append", "save_history"}
        /\ pc = "fetch" => history = JList(<<>>)

\* C6: when the history write fails after the README was written, main still
\* returns normally and the README holds the new card.
C6_HistoryFailureSwallowed ==
    LastLogged = "history:write:failed" =>
        /\ pc = "idle"
        /\ outcome.how = "success"
        /\ readme_file = TextFile("text", readme_content)
        /\ \E j \in DOMAIN io_log : io_log[j] = "readme:write:ok"

\* The history write failed half-way in a run that had written its card.
C6_Witness ==
    /\ LastLogged = "history:write:failed"
    /\ outcome.how = "success"
    /\ history_file.kind = "invalid"
    /\ IsArray(history_at_start)
    /\ readme_file = TextFile("text", readme_content)
    /\ readme_file # readme_at_start

\* ------------------------------------------------------------------------
\* Properties of the functions
\* ------------------------------------------------------------------------

\* Reading a key with every level optional: null when the value is no dict or
\* has no such key.
SafeGet(x, key) == IF x.t = "dict" /\ key \in DOMAIN x.d THEN x.d[key] ELSE JNull

\* The sprite fields of a record in the order of preference.
SpritePreference(rec) ==
    LET sprites == SafeGet(rec, "sprites")
        other == SafeGet(sprites, "other")
    IN <<SafeGet(sprites, "front_default"),
         SafeGet(sprites, "front_shiny"),
         SafeGet(SafeGet(other, "official-artwork"), "front_default"),
         SafeGet(SafeGet(other, "home"), "front_default")>>

\* C7: with each sprite key absent, null or set, get_pokemon_sprite does not
\* fail and returns the first URL that is set in the order front_default,
\* front_shiny, official artwork, home, and the fallback URL when none is.
C7_SpriteSelectorTotal ==
    call.fn = "get_pokemon_sprite" =>
        LET options == SpritePreference(call.args[1])
            set == {i \in DOMAIN options : options[i].t = "str"}
        IN /\ call.ret.status = "ok"
           /\ set = {} => call.ret.value = FallbackSprite
           /\ \A i \in set : (\A j \in set : i <= j) => call.ret.value = options[i].s

\* C8: with any subset of id, name, height, weight, types, abilities, stats
\* absent, get_pokemon_info returns an info with the absent fields zero or
\* empty, and does not raise.
C8_InfoExtractorTotal ==
    call.fn = "get_pokemon_info" =>
        LET present == DOMAIN call.args[1].d
            info == call.ret.value
        IN /\ call.ret.status = "ok"
           /\ "name" \notin present => info.name = <<>>
           /\ "id" \notin present => info.id = 0
           /\ "types" \notin present => info.types = <<>>
           /\ "abilities" \notin present => info.abilities = <<>>
           /\ "height" \notin present => info.height = <<"0", ".", "0", " m">>
           /\ "weight" \notin present => info.weight = <<"0", ".", "0", " kg">>
           /\ "stats" \notin present => info.total_stats = 0 /\ info.hp = 0

\* C9: for an info with the five keys name, id, types, height and weight,
\* generate_readme_content returns a card that contains the name, '#' and the
\* id padded with zeros to three digits, the types, the height, the weight and
\* the sprite URL.
C9_CardFromFiveFields ==
    (call.fn = "generate_readme_content" /\ DOMAIN call.args[2] = TestInfoKeys) =>
        LET sprite == call.args[1]
            info == call.args[2]
            digits == Str(info.id)
            padded == IF Len(digits) >= 3 THEN digits
                      ELSE [i \in 1..(3 - Len(digits)) |-> "0"] \o digits
        IN /\ call.ret.status = "ok"
           /\ Contains(call.ret.value, info.name)
           /\ Contains(call.ret.value, <<"#">> \o padded)
           /\ Contains(call.ret.value, info.types)
           /\ Contains(call.ret.value, info.height)
           /\ Contains(call.ret.value, info.weight)
           /\ Contains(call.ret.value, sprite)

\* C10: for every stat value from 0 up, create_stat_bar renders
\* floor(value * 10 / 255) solid blocks, then 10 minus that many empty blocks,
\* then the value: ten blocks in all.
C10_StatBarTenBlocks ==
    call.fn = "create_stat_bar" =>
        LET value == call.args[1]
            bar == call.ret.value
            filled == (value * 10) \div 255
        IN /\ Count(bar, SolidBlock) = filled
           /\ Count(bar, EmptyBlock) = 10 - filled
           /\ Count(bar, SolidBlock) + Count(bar, EmptyBlock) = 10
           /\ \A i \in 1..Len(bar) : bar[i] = SolidBlock => \A j \in 1..i : bar[j] = SolidBlock
           /\ SubSeq(bar, filled + (10 - filled) + 1, Len(bar)) = <<" ">> \o Str(value)
====
